---------------------------- MODULE Spec2Model ----------------------------
(***************************************************************************)
(* A model of the id-indexed directed graph container of src/src/lib.rs:   *)
(* Edge, Vertex<T>, Graph<T> and the operations create_node, get_mut_data, *)
(* add_weighted_edge, add_edge and the edge list computed by draw.         *)
(*                                                                         *)
(* Rust vectors are 0-based and TLA+ sequences 1-based: the vertex with    *)
(* VertexId i is vertices[i + 1].  Option<X> is a sequence of length <= 1: *)
(* None is << >>, Some(x) is << x >>.                                      *)
(***************************************************************************)
EXTENDS Integers, Sequences, FiniteSets

(* ------------------------------ bounds -------------------------------- *)

\* create_node is called at most MaxNodes times
MaxNodes == 2
\* at most MaxEdges edge records are stored in the whole graph
MaxEdges == 2
\* payloads (the type parameter T) range over 0..MaxData
MaxData == 1
\* weights (i32) range over -MaxWt..MaxWt
MaxWt == 1

Data == 0..MaxData
Weights == (0 - MaxWt)..MaxWt
\* the ids callers pass: every id that can be valid, and MaxNodes, which never is
Ids == 0..MaxNodes

(* ------------------------------ state --------------------------------- *)

VARIABLES
    vertices,   \* Graph::vertices, the pool
    last,       \* the most recent call: its name, its arguments, what it returned
    ncreate,    \* how many times create_node has been called
    inserted    \* the (from_id, to_id) of every stored edge, in global insertion order

vars == <<vertices, last, ncreate, inserted>>

None == << >>
Some(x) == << x >>

(* ------------------------------ Edge, Vertex -------------------------- *)

Edge(wt, other_id) == [wt |-> wt, other_id |-> other_id]

\* a constructor that drops the id it is given
Vertex_new_zero(id, data) ==
    [data |-> data, id |-> 0, out_edges |-> << >>, in_edges |-> << >>]

Vertex_new(id, data) ==
    [data |-> data, id |-> id, out_edges |-> << >>, in_edges |-> << >>]

\* a push at the front of the list instead of its end
add_out_front(vx, id, wt) == [vx EXCEPT !.out_edges = <<Edge(wt, id)>> \o @]

add_out(vx, id, wt) == [vx EXCEPT !.out_edges = Append(@, Edge(wt, id))]

add_in(vx, id, wt) == [vx EXCEPT !.in_edges = Append(@, Edge(wt, id))]

(* ------------------------------ Graph --------------------------------- *)

Graph_new == << >>

\* a lookup that clamps an index past the end to the last element
get_mut_clamped(vs, idx) ==
    IF idx < Len(vs) THEN Some(idx + 1)
    ELSE IF Len(vs) > 0 THEN Some(Len(vs)) ELSE None

\* Vec::get / Vec::get_mut: the position of element idx, when it exists
get_mut(vs, idx) == IF idx < Len(vs) THEN Some(idx + 1) ELSE None

\* an id taken one past the pool length
create_node_skip(vs, data) ==
    LET next_idx == Len(vs) + 1
        vx == Vertex_new(next_idx, data)
    IN  [vertices |-> Append(vs, vx), ret |-> next_idx]

\* a vertex inserted at the head of the pool
create_node_front(vs, data) ==
    LET next_idx == Len(vs)
        vx == Vertex_new(next_idx, data)
    IN  [vertices |-> <<vx>> \o vs, ret |-> next_idx]

\* the pool after the call, and the id returned
create_node(vs, data) ==
    LET next_idx == Len(vs)
        vx == Vertex_new(next_idx, data)
    IN  [vertices |-> Append(vs, vx), ret |-> next_idx]

\* a handle that always borrows the first vertex's payload
get_mut_data_first(vs, id) == IF get_mut(vs, id) = None THEN None ELSE Some(1)

\* Option<&mut T>: the handle is the pool position whose data field it borrows
get_mut_data(vs, id) == get_mut(vs, id)

\* reading and writing the payload a handle borrows
deref(vs, h) == vs[h].data
assign(vs, h, data) == [vs EXCEPT ![h].data = data]

\* an insertion that also records the edge in the destination's in_edges
add_weighted_edge_both(vs, from_id, to_id, weight) ==
    LET slot == get_mut(vs, from_id)
        out == IF slot = None THEN vs
               ELSE [vs EXCEPT ![slot[1]] = add_out(@, to_id, weight)]
        dest == get_mut(out, to_id)
    IN  IF slot = None \/ dest = None THEN out
        ELSE [out EXCEPT ![dest[1]] = add_in(@, from_id, weight)]

\* an insertion that drops the edge when the destination does not exist
add_weighted_edge_checked(vs, from_id, to_id, weight) ==
    LET slot == get_mut(vs, from_id)
    IN  IF slot = None \/ get_mut(vs, to_id) = None THEN vs
        ELSE [vs EXCEPT ![slot[1]] = add_out(@, to_id, weight)]

add_weighted_edge(vs, from_id, to_id, weight) ==
    LET slot == get_mut(vs, from_id)
    IN  IF slot = None THEN vs
        ELSE [vs EXCEPT ![slot[1]] = add_out(@, to_id, weight)]

\* an unweighted edge stored with weight 1
add_edge_one(vs, from_id, to_id) == add_weighted_edge(vs, from_id, to_id, 1)

add_edge(vs, from_id, to_id) == add_weighted_edge(vs, from_id, to_id, 0)

\* pairs emitted as (destination, source)
edge_pairs_swapped(vx) ==
    [i \in 1..Len(vx.out_edges) |-> <<vx.out_edges[i].other_id, vx.id>>]

\* the inner map of draw: one (vx.id, out.other_id) pair per outgoing edge
edge_pairs(vx) ==
    [i \in 1..Len(vx.out_edges) |-> <<vx.id, vx.out_edges[i].other_id>>]

\* the flat_map of draw over the pool, in pool order
RECURSIVE flat_map(_)
flat_map(vs) ==
    IF vs = << >> THEN << >>
    ELSE edge_pairs(Head(vs)) \o flat_map(Tail(vs))

\* the `edges` vector draw computes, prints and hands to the exporter
draw(vs) == flat_map(vs)

(* ------------------------------ helpers ------------------------------- *)

RECURSIVE TotalEdges(_)
TotalEdges(vs) ==
    IF vs = << >> THEN 0 ELSE Len(Head(vs).out_edges) + TotalEdges(Tail(vs))

(* ------------------------------ actions ------------------------------- *)

Init ==
    /\ vertices = Graph_new
    /\ last = [op |-> "new"]
    /\ ncreate = 0
    /\ inserted = << >>

CreateNode(data) ==
    /\ Len(vertices) < MaxNodes
    /\ LET r == create_node(vertices, data)
       IN  /\ vertices' = r.vertices
           /\ last' = [op |-> "create_node", data |-> data, ret |-> r.ret]
    /\ ncreate' = ncreate + 1
    /\ UNCHANGED inserted

\* g.get_mut_data(id) whose caller reads the payload when a handle comes back
GetMutData(id) ==
    /\ LET h == get_mut_data(vertices, id)
       IN  last' = [op |-> "get_mut_data", id |-> id, ret |-> h,
                    val |-> IF h = None THEN None ELSE Some(deref(vertices, h[1]))]
    /\ UNCHANGED <<vertices, ncreate, inserted>>

\* g.get_mut_data(id) whose caller writes data through the handle when one comes back
SetData(id, data) ==
    /\ LET h == get_mut_data(vertices, id)
       IN  /\ vertices' = IF h = None THEN vertices ELSE assign(vertices, h[1], data)
           /\ last' = [op |-> "set_data", id |-> id, data |-> data, ret |-> h]
    /\ UNCHANGED <<ncreate, inserted>>

AddWeightedEdge(from_id, to_id, weight) ==
    /\ from_id < Len(vertices) => TotalEdges(vertices) < MaxEdges
    /\ vertices' = add_weighted_edge(vertices, from_id, to_id, weight)
    /\ last' = [op |-> "add_weighted_edge", from_id |-> from_id, to_id |-> to_id,
                weight |-> weight, ret |-> "unit"]
    /\ inserted' = IF from_id < Len(vertices)
                   THEN Append(inserted, <<from_id, to_id>>) ELSE inserted
    /\ UNCHANGED ncreate

AddEdge(from_id, to_id) ==
    /\ from_id < Len(vertices) => TotalEdges(vertices) < MaxEdges
    /\ vertices' = add_edge(vertices, from_id, to_id)
    /\ last' = [op |-> "add_edge", from_id |-> from_id, to_id |-> to_id, ret |-> "unit"]
    /\ inserted' = IF from_id < Len(vertices)
                   THEN Append(inserted, <<from_id, to_id>>) ELSE inserted
    /\ UNCHANGED ncreate

Draw ==
    /\ last' = [op |-> "draw", ret |-> draw(vertices)]
    /\ UNCHANGED <<vertices, ncreate, inserted>>

Next ==
    \/ \E data \in Data : CreateNode(data)
    \/ \E id \in Ids : GetMutData(id)
    \/ \E id \in Ids, data \in Data : SetData(id, data)
    \/ \E from_id \in Ids, to_id \in Ids, weight \in Weights :
           AddWeightedEdge(from_id, to_id, weight)
    \/ \E from_id \in Ids, to_id \in Ids : AddEdge(from_id, to_id)
    \/ Draw

Spec == Init /\ [][Next]_vars

(* ------------------------- vocabulary of the properties --------------- *)

\* the ids valid in pool vs
Valid(vs) == 0..(Len(vs) - 1)

\* the vertex stored for id
At(vs, id) == vs[id + 1]

\* how many times pair p occurs in the sequence s
Count(p, s) == Cardinality({i \in DOMAIN s : s[i] = p})

\* s is an initial segment of t
IsPrefix(s, t) == Len(s) <= Len(t) /\ \A i \in DOMAIN s : t[i] = s[i]

\* the pairs of s whose source is id, in the order of s
FromSource(s, id) == SelectSeq(s, LAMBDA p : p[1] = id)

\* s sorted by source id 0..n-1, the pairs of one source kept in the order of s
RECURSIVE BySource(_, _, _)
BySource(s, id, n) ==
    IF id >= n THEN << >> ELSE FromSource(s, id) \o BySource(s, id + 1, n)

\* the number of pairs draw emits before the first pair of vertex id
RECURSIVE Offset(_, _)
Offset(vs, id) ==
    IF id = 0 THEN 0 ELSE Offset(vs, id - 1) + Len(At(vs, id - 1).out_edges)

\* the step just taken was a call that wrote a payload through a handle to id
WroteTo(id) == last'.op = "set_data" /\ last'.id = id

(* ------------------------------ C1 ------------------------------------ *)

\* C1: the k-th call of create_node (k from 0, whatever calls are interleaved)
\* returns k, which is the pool length just before the call, and the payload
\* read through get_mut_data(k) is the one passed to that call; a payload only
\* changes in a step that writes it through a get_mut_data handle.
C1_SequentialIds ==
    [][ /\ last'.op = "create_node" =>
              /\ last'.ret = ncreate
              /\ last'.ret = Len(vertices)
              /\ get_mut_data(vertices', last'.ret) # None
              /\ deref(vertices', get_mut_data(vertices', last'.ret)[1]) = last'.data
        /\ \A k \in Valid(vertices) :
              ~WroteTo(k) =>
                  /\ get_mut_data(vertices', k) # None
                  /\ deref(vertices', get_mut_data(vertices', k)[1])
                         = deref(vertices, get_mut_data(vertices, k)[1])
      ]_vars

\* the second create_node, called after an edge was inserted, returned 1 and
\* the two vertices hold different payloads
C1_Witness ==
    /\ last.op = "create_node" /\ last.ret = 1 /\ ncreate = 2
    /\ inserted # << >>
    /\ At(vertices, 0).data # At(vertices, 1).data

(* ------------------------------ C2 ------------------------------------ *)

C3_InvalidFromNoOp ==
    [][ (last'.op = "add_weighted_edge" /\ last'.from_id \notin Valid(vertices)) =>
            /\ last'.ret = "unit"
            /\ Len(vertices') = Len(vertices)
            /\ draw(vertices') = draw(vertices)
            /\ \A id \in Valid(vertices) : At(vertices', id) = At(vertices, id)
      ]_vars

\* the call was made on a graph that has vertices and an edge, with a
\* destination that exists
C3_Witness ==
    /\ last.op = "add_weighted_edge"
    /\ last.from_id \notin Valid(vertices)
    /\ last.to_id \in Valid(vertices)
    /\ draw(vertices) # << >>

(* ------------------------------ C4 ------------------------------------ *)

\* C4: get_mut_data(id) returns None exactly when id >= pool length and always
\* returns; for a valid id the handle reads that vertex's payload, a value
\* written through it is the payload afterwards (and stays so until the next
\* write to id), and the call changes no edge list, no id and no other payload.
C4_GetMutData ==
    [][ /\ last'.op \in {"get_mut_data", "set_data"} =>
              /\ Len(vertices') = Len(vertices)
              /\ (last'.ret = None) <=> (last'.id >= Len(vertices))
              /\ \A id \in Valid(vertices) :
                    /\ At(vertices', id).id = At(vertices, id).id
                    /\ At(vertices', id).out_edges = At(vertices, id).out_edges
                    /\ At(vertices', id).in_edges = At(vertices, id).in_edges
                    /\ ~WroteTo(id) => At(vertices', id).data = At(vertices, id).data
        /\ (last'.op = "get_mut_data" /\ last'.id \in Valid(vertices)) =>
              last'.val = Some(At(vertices, last'.id).data)
        /\ (last'.op = "get_mut_data" /\ last'.id \notin Valid(vertices)) =>
              last'.val = None
        /\ (last'.op = "set_data" /\ last'.id \in Valid(vertices)) =>
              At(vertices', last'.id).data = last'.data
      ]_vars

\* a read through the handle of the last vertex that sees a payload which
\* differs from another vertex's, on a graph with an edge
C4_Witness ==
    /\ last.op = "get_mut_data"
    /\ last.id = Len(vertices) - 1 /\ last.id > 0
    /\ last.val = Some(At(vertices, last.id).data)
    /\ At(vertices, 0).data # At(vertices, last.id).data
    /\ inserted # << >>

(* ------------------------------ C5 ------------------------------------ *)

\* C5: for every state and every pair of ids, valid or not, add_edge(a, b)
\* leaves the graph as add_weighted_edge(a, b, 0) would: the same pool, the
\* record {wt: 0, other_id: b} appended to a's out_edges when a is valid, and
\* nothing changed when it is not.
C5_AddEdgeIsWeightZero ==
    [][ last'.op = "add_edge" =>
            /\ vertices' = add_weighted_edge(vertices, last'.from_id, last'.to_id, 0)
            /\ last'.from_id \in Valid(vertices) =>
                  vertices' = [vertices EXCEPT ![last'.from_id + 1].out_edges =
                                   Append(@, [wt |-> 0, other_id |-> last'.to_id])]
            /\ last'.from_id \notin Valid(vertices) => vertices' = vertices
      ]_vars

\* add_edge appended to a vertex that already had a weighted edge
C5_Witness ==
    /\ last.op = "add_edge"
    /\ last.from_id \in Valid(vertices)
    /\ LET out == At(vertices, last.from_id).out_edges
       IN  /\ Len(out) = 2
           /\ out[1].wt # 0
           /\ out[2] = [wt |-> 0, other_id |-> last.to_id]

(* ------------------------------ C6 ------------------------------------ *)

\* C6: the topology sequence has exactly one (source, destination) pair per
\* stored outgoing edge, ordered by ascending source id and, within one
\* source, by insertion order: it is the global insertion order sorted stably
\* by source.
C6_TopologyOrder ==
    last.op = "draw" =>
        /\ Len(last.ret) = TotalEdges(vertices)
        /\ \A id \in Valid(vertices) :
              \A j \in 1..Len(At(vertices, id).out_edges) :
                  last.ret[Offset(vertices, id) + j]
                      = <<id, At(vertices, id).out_edges[j].other_id>>
        /\ last.ret = BySource(inserted, 0, Len(vertices))
        /\ \A i, j \in DOMAIN last.ret : i <= j => last.ret[i][1] <= last.ret[j][1]

\* 1->2 was inserted before 0->2, and draw lists 0->2 first
C6_Witness ==
    /\ last.op = "draw"
    /\ Len(vertices) >= 2
    /\ inserted = << <<1, 2>>, <<0, 2>> >>
    /\ last.ret = << <<0, 2>>, <<1, 2>> >>

(* ------------------------------ C7 ------------------------------------ *)

\* C7: in every reachable state the vertex at pool index i has id i.
C7_IdIsIndex == \A i \in Valid(vertices) : At(vertices, i).id = i

\* the vertex created second, after edge insertions and a payload write to it
C7_Witness ==
    /\ Len(vertices) >= 2
    /\ Len(inserted) = 2
    /\ last.op = "set_data" /\ last.id = 1
    /\ At(vertices, 1).id = 1

(* ------------------------------ C8 ------------------------------------ *)

\* C8: the pool is append-only: no step shortens it or moves a vertex, an
\* issued id stays valid, create_node lengthens the pool by exactly 1 and
\* every other call leaves its length unchanged.
C8_AppendOnly ==
    [][ /\ Len(vertices') >= Len(vertices)
        /\ last'.op = "create_node" => Len(vertices') = Len(vertices) + 1
        /\ last'.op # "create_node" => Len(vertices') = Len(vertices)
        /\ \A id \in Valid(vertices) :
              /\ get_mut_data(vertices', id) # None
              /\ At(vertices', id).id = At(vertices, id).id
              /\ IsPrefix(At(vertices, id).out_edges, At(vertices', id).out_edges)
              /\ At(vertices', id).in_edges = At(vertices, id).in_edges
      ]_vars

\* id 0, issued first, still has a handle after another vertex and edges
C8_Witness ==
    /\ Len(vertices) >= 2
    /\ last.op = "get_mut_data" /\ last.id = 0 /\ last.ret # None
    /\ inserted # << >>

(* ------------------------------ C9 ------------------------------------ *)

\* C9: add_weighted_edge does not check the destination: with from valid and
\* to >= pool length the record is appended, (from, to) is in the topology
\* sequence and the call returns normally; a later create_node leaves every
\* stored record as it was.
C9_NoDestinationCheck ==
    [][ /\ (/\ last'.op = "add_weighted_edge"
            /\ last'.from_id \in Valid(vertices)
            /\ last'.to_id \notin Valid(vertices)) =>
              /\ last'.ret = "unit"
              /\ At(vertices', last'.from_id).out_edges =
                     Append(At(vertices, last'.from_id).out_edges,
                            [wt |-> last'.weight, other_id |-> last'.to_id])
              /\ Count(<<last'.from_id, last'.to_id>>, draw(vertices')) >= 1
        /\ last'.op = "create_node" =>
              /\ \A id \in Valid(vertices) :
                    At(vertices', id).out_edges = At(vertices, id).out_edges
              /\ draw(vertices') = draw(vertices)
      ]_vars

\* vertex 0 holds an edge to id 1 and one to an id never created; vertex 1 was
\* created after the edge to it
C9_Witness ==
    /\ last.op = "create_node" /\ last.ret = 1
    /\ Len(inserted) = 2
    /\ inserted[1] = <<0, 1>>
    /\ inserted[2][2] \notin Valid(vertices)
    /\ draw(vertices) = inserted

(* ------------------------------ C10 ----------------------------------- *)

\* every in_edges list is empty
InEdgesEmpty == \A id \in Valid(vertices) : At(vertices, id).in_edges = << >>

=============================================================================
